---- MODULE Spec2Model ----
(***************************************************************************)
(* A model of vim-plugin-manager.py: the release workflow of the class     *)
(* VimPluginManager (publish_release and the methods it calls).            *)
(*                                                                         *)
(* One run is one invocation of a method of the class.  The outside world  *)
(* of a run (what git, the Vim Online page, the editor, the credentials    *)
(* file, the browser and the hook do when they are called) is fixed when   *)
(* the run starts, in the variable script; the run itself is sequential    *)
(* and deterministic given that world, as in the code.                     *)
(*                                                                         *)
(* A release run (main() calling publish_release) starts at                *)
(* find_current_plugin.  generate_changelog ends every such run that gets  *)
(* to it (it calls rstrip on a list), so approve_changelog,                *)
(* publish_release_to_vim_online, generate_release_archive,                *)
(* show_release_on_vim_online and run_post_release_hook are also modelled  *)
(* as runs of their own, invoked on the object with their arguments.       *)
(*                                                                         *)
(* Text is modelled as a sequence of characters, a version string as a     *)
(* sequence of components, each component a sequence of decimal digits     *)
(* ("1.03" is << <<1>>, <<0, 3>> >>), so that int() and str() are          *)
(* computed and not assumed to be inverse to each other.                   *)
(***************************************************************************)
EXTENDS Integers, Sequences, FiniteSets, TLC

(***************************************************************************)
(* Bounds of the model.                                                    *)
(***************************************************************************)
\* The Vim Online page lists at most MaxRows different versions.
MaxRows == 2
\* git log reports at most MaxCommits commits in the release range.
MaxCommits == 2

(***************************************************************************)
(* Python values and string methods.                                       *)
(***************************************************************************)
PyStr(s) == [type |-> "str", val |-> s]
PyList(l) == [type |-> "list", val |-> l]

\* str has the methods rstrip and strip; list has not (AttributeError).
HasStringMethods(v) == v.type = "str"

IsSpace(c) == c \in {" ", "\n"}

RECURSIVE Rstrip(_)
\* str.rstrip(): drop the trailing whitespace.
Rstrip(s) ==
    IF s = <<>> THEN <<>>
    ELSE IF IsSpace(s[Len(s)]) THEN Rstrip(SubSeq(s, 1, Len(s) - 1))
    ELSE s

RECURSIVE Lstrip(_)
Lstrip(s) ==
    IF s = <<>> THEN <<>>
    ELSE IF IsSpace(s[1]) THEN Lstrip(Tail(s))
    ELSE s

\* str.strip(): drop the leading and the trailing whitespace.
Strip(s) == Lstrip(Rstrip(s))

RECURSIVE RstripColon(_)
\* str.rstrip(':')
RstripColon(s) ==
    IF s = <<>> THEN <<>>
    ELSE IF s[Len(s)] = ":" THEN RstripColon(SubSeq(s, 1, Len(s) - 1))
    ELSE s

RECURSIVE Reversed(_)
\* reversed(list)
Reversed(l) ==
    IF l = <<>> THEN <<>> ELSE Append(Reversed(Tail(l)), l[1])

(***************************************************************************)
(* Version strings.                                                        *)
(***************************************************************************)
RECURSIVE PyInt(_)
\* int(digits): the number a decimal digit string denotes ("03" is 3).
PyInt(d) ==
    IF d = <<>> THEN 0 ELSE 10 * PyInt(SubSeq(d, 1, Len(d) - 1)) + d[Len(d)]

RECURSIVE StrOfInt(_)
\* str(n): the decimal digits of n, without leading zeros.
StrOfInt(n) ==
    IF n < 10 THEN <<n>> ELSE Append(StrOfInt(n \div 10), n % 10)

\* map(int, version_string.split('.'))
ParseVersion(v) == [i \in 1..Len(v) |-> PyInt(v[i])]

\* '.'.join([str(d) for d in version_number])
FormatVersion(t) == [i \in 1..Len(t) |-> StrOfInt(t[i])]

RECURSIVE PyListLess_AsStrings(_, _)
\* A sort of the version strings themselves: the components are compared as
\* text, digit by digit ("10" sorts before "9").
PyListLess_AsStrings(a, b) ==
    LET RECURSIVE TextLess(_, _)
        TextLess(x, y) ==
            IF y = <<>> THEN FALSE
            ELSE IF x = <<>> THEN TRUE
            ELSE IF x[1] # y[1] THEN x[1] < y[1]
            ELSE TextLess(Tail(x), Tail(y))
    IN
    IF b = <<>> THEN FALSE
    ELSE IF a = <<>> THEN TRUE
    ELSE IF a[1] # b[1] THEN TextLess(StrOfInt(a[1]), StrOfInt(b[1]))
    ELSE PyListLess_AsStrings(Tail(a), Tail(b))

RECURSIVE PyListLess(_, _)
\* Python's < on lists of integers: the first differing element decides, and
\* a proper prefix is smaller.
PyListLess(a, b) ==
    IF b = <<>> THEN FALSE
    ELSE IF a = <<>> THEN TRUE
    ELSE IF a[1] # b[1] THEN a[1] < b[1]
    ELSE PyListLess(Tail(a), Tail(b))

\* released_versions.sort(); released_versions[-1]
LastOfSorted(S) ==
    CHOOSE m \in S : \A x \in S : x = m \/ PyListLess(x, m)

\* The version strings of the examples: 1.2.0, 1.3.0, 1.3, 1.03, 2.9, 2.10.
V_1_2_0 == << <<1>>, <<2>>, <<0>> >>
V_1_3_0 == << <<1>>, <<3>>, <<0>> >>
V_1_3 == << <<1>>, <<3>> >>
V_1_03 == << <<1>>, <<0, 3>> >>
V_2_9 == << <<2>>, <<9>> >>
V_2_10 == << <<2>>, <<1, 0>> >>
VersionStrings == {V_1_2_0, V_1_3_0, V_1_3, V_1_03, V_2_9, V_2_10}

\* A row whose version has no dot: the pattern (\d+(?:\.\d+)+) does not match.
V_7 == << <<7>> >>
RowStrings == VersionStrings \cup {V_7}

\* re.search('<b>(\d+(?:\.\d+)+)</b>', html_row) finds a version.
Parseable(v) == Len(v) >= 2

\* The committed file has no line that defines the version.
NoMarker == <<>>

\* The listings a page can show: at most MaxRows rows with a download link.
Listings == {S \in SUBSET RowStrings : Cardinality(S) <= MaxRows}

(***************************************************************************)
(* The commits git log reports, newest first: commit i has the abbreviated *)
(* hash i; the subject of every other commit ends in a colon.              *)
(***************************************************************************)
Commit(i) == [hash |-> i, desc |-> IF i % 2 = 1 THEN <<"a", ":">> ELSE <<"b">>]
GitLogs == {[i \in 1..n |-> Commit(n + 1 - i)] : n \in 0..MaxCommits}

\* What the user leaves in the editor.
EditedTexts == {<<>>, <<" ">>, <<"a">>, <<"a", "\n">>}

(***************************************************************************)
(* The places where the outside world can make a step fail (at most one    *)
(* is scripted per run: the first failure that is raised ends the run).    *)
(* "which" is the lookup of the post-release hook finding nothing.         *)
(***************************************************************************)
Faults ==
    {"none", "git_config", "bad_url", "unknown_plugin", "http_status",
     "git_show", "push_master", "push_tags", "git_log", "gvim", "read",
     "netrc", "git_archive", "upload", "browser", "which", "hook"}

\* The plug-in of the repository in the working directory.
PluginName == "xolox/vim-notes"

VARIABLES
    entry,               \* the method this run invokes
    dry_run,             \* self.dry_run
    script,              \* the outside world of the run
    listing,             \* the versions on the plug-in's Vim Online page
    draft_file,          \* /tmp/vim-online-changelog
    archive_file,        \* /tmp/<zip-file>: TRUE when it exists
    uploads,             \* the upload forms submitted to Vim Online
    previous_release,    \* locals of publish_release
    committed_version,
    suggested_changelog,
    approved_changelog,
    pc,                  \* the step the run is at
    calls,               \* the steps executed so far, each with its outcome
    raised,              \* the exception that ended the run, or "none"
    outcome,             \* how the run ended
    exit_status,         \* the status of the process: -1 while it runs
    conc,                \* the runs of approve_changelog that overlap in time
    repo                 \* the git repository the post-commit hook runs in

world == <<entry, dry_run, script, conc, repo>>
locals == <<previous_release, committed_version, suggested_changelog,
            approved_changelog>>
files == <<listing, draft_file, archive_file, uploads>>
control == <<pc, calls, raised, outcome, exit_status>>
vars == <<world, locals, files, control>>

NoFile == [exists |-> FALSE, text |-> <<>>]
None == PyStr(<<>>)

Scripts(faults) ==
    [fault : faults, committed : VersionStrings \cup {NoMarker},
     gitlog : GitLogs, edited : EditedTexts]

\* The script of a run that starts in the middle of the workflow: only the
\* steps from there on consult it.
LateScripts(faults) ==
    [fault : faults, committed : {NoMarker}, gitlog : {<<>>},
     edited : EditedTexts]

InitCommon ==
    /\ conc = <<>>
    /\ draft_file = NoFile
    /\ archive_file = FALSE
    /\ uploads = <<>>
    /\ calls = <<>>
    /\ raised = "none"
    /\ outcome = "none"
    /\ exit_status = -1

\* vim-plugin-manager --release [--dry-run]: main() calls publish_release.
InitPublishRelease ==
    /\ entry = "publish_release"
    /\ dry_run \in BOOLEAN
    /\ script \in Scripts(Faults)
    /\ listing \in Listings
    /\ previous_release = <<>>
    /\ committed_version = <<>>
    /\ suggested_changelog = None
    /\ approved_changelog = <<>>
    /\ pc = "find_current_plugin"

\* approve_changelog(suggested_changelog) called with a string.
InitApproveChangelog ==
    /\ entry = "approve_changelog"
    /\ dry_run = FALSE
    /\ script \in LateScripts({"none", "gvim", "read"})
    /\ listing = {V_1_2_0}
    /\ previous_release = <<>>
    /\ committed_version = <<>>
    /\ suggested_changelog \in {PyStr(t) : t \in EditedTexts}
    /\ approved_changelog = <<>>
    /\ pc = "approve_write"

\* publish_release_to_vim_online(plugin_name, new_version, changelog)
InitPublishToVimOnline ==
    /\ entry = "publish_release_to_vim_online"
    /\ dry_run = FALSE
    /\ script \in LateScripts({"none", "netrc", "git_archive", "upload"})
    /\ listing = {V_1_2_0}
    /\ previous_release = <<>>
    /\ committed_version \in {V_1_3_0, V_2_10}
    /\ suggested_changelog = None
    /\ approved_changelog \in {<<"a">>, <<"b">>}
    /\ pc = "publish_lookup"

\* generate_release_archive(plugin_name), show_release_on_vim_online(plugin_name)
\* and run_post_release_hook(plugin_name)
InitHelper ==
    /\ \/ entry = "generate_release_archive" /\ pc = "generate_release_archive"
          /\ script \in LateScripts({"none", "git_archive"})
       \/ entry = "show_release_on_vim_online" /\ pc = "show_release"
          /\ script \in LateScripts({"none", "browser"})
       \/ entry = "run_post_release_hook" /\ pc = "which_hook"
          /\ script \in LateScripts({"none", "which", "hook"})
    /\ dry_run = FALSE
    /\ listing = {V_1_2_0}
    /\ previous_release = <<>>
    /\ committed_version = <<>>
    /\ suggested_changelog = None
    /\ approved_changelog = <<>>

Init ==
    /\ InitCommon
    /\ repo = <<>>
    /\ \/ InitPublishRelease
       \/ InitApproveChangelog
       \/ InitPublishToVimOnline
       \/ InitHelper

(***************************************************************************)
(* Control flow shared by the steps.                                       *)
(***************************************************************************)
Log(op, ok) == calls' = Append(calls, [op |-> op, ok |-> ok])

Goto(next) ==
    /\ pc' = next
    /\ UNCHANGED <<raised, outcome, exit_status>>

\* An exception leaves the method; in publish_release the try statement
\* catches it.
Raise(kind) ==
    /\ raised' = kind
    /\ IF entry = "publish_release"
       THEN pc' = "except" /\ UNCHANGED <<outcome, exit_status>>
       ELSE pc' = "done" /\ outcome' = "raised" /\ UNCHANGED exit_status

\* A return that leaves the exit status of a failure.
Finish_AsFailure(how) ==
    /\ pc' = "done"
    /\ outcome' = how
    /\ exit_status' = 1
    /\ UNCHANGED raised

\* publish_release returns, then main(), and the interpreter exits with 0.
Finish(how) ==
    /\ pc' = "done"
    /\ outcome' = how
    /\ exit_status' = 0
    /\ UNCHANGED raised

\* A method returns: to publish_release when that is the run, otherwise to
\* the caller outside.
Return(next) ==
    IF entry = "publish_release"
    THEN Goto(next)
    ELSE /\ pc' = "done"
         /\ outcome' = "returned"
         /\ UNCHANGED <<raised, exit_status>>

\* A step of the workflow: it raises, or it completes and control goes on.
Step(op, fails, kind, next) ==
    IF fails
    THEN Log(op, FALSE) /\ Raise(kind)
    ELSE Log(op, TRUE) /\ next

\* run(*command): ExternalCommandFailed on a nonzero return code.
Run(op, next) == Step(op, script.fault = op, "ExternalCommandFailed", next)

(***************************************************************************)
(* publish_release, step by step.                                          *)
(***************************************************************************)
\* Where find_current_plugin returns to: publish_release or
\* run_postcommit_hooks.
AfterFindCurrentPlugin ==
    IF entry = "run_postcommit_hooks"
    THEN "on_master_branch" ELSE "find_version_on_vim_online"

\* Where find_version_in_repository returns to.
AfterFindVersionInRepository ==
    IF entry = "run_postcommit_hooks" THEN "git_tag_list" ELSE "compare"

\* find_current_plugin
FindCurrentPlugin ==
    /\ pc = "find_current_plugin"
    /\ Step("find_current_plugin",
            script.fault \in {"git_config", "bad_url", "unknown_plugin"},
            IF script.fault = "git_config"
            THEN "ExternalCommandFailed" ELSE "Exception",
            Goto(AfterFindCurrentPlugin))
    /\ UNCHANGED <<world, locals, files>>

\* The value find_version_on_vim_online returns for the rows of the page.
LatestRelease(rows) ==
    FormatVersion(LastOfSorted({ParseVersion(v) : v \in rows}))

\* find_version_on_vim_online
FindVersionOnVimOnline ==
    /\ pc = "find_version_on_vim_online"
    /\ LET unparsed == \E v \in listing : ~Parseable(v)
           fails == script.fault = "http_status" \/ listing = {} \/ unparsed
       IN
       /\ Step("find_version_on_vim_online", fails,
               IF script.fault # "http_status" /\ unparsed
               THEN "AttributeError" ELSE "Exception",
               Goto("find_version_in_repository"))
       /\ previous_release' =
              IF fails THEN previous_release ELSE LatestRelease(listing)
    /\ UNCHANGED <<world, files, committed_version, suggested_changelog,
                   approved_changelog>>

\* A scan that returns the empty string when no line defines the version.
FindVersionInRepository_NoCheck ==
    /\ pc = "find_version_in_repository"
    /\ Run("git_show", Goto("compare"))
    /\ committed_version' =
           IF script.fault = "git_show" THEN committed_version
           ELSE script.committed
    /\ UNCHANGED <<world, files, previous_release, suggested_changelog,
                   approved_changelog>>

\* find_version_in_repository
FindVersionInRepository ==
    /\ pc = "find_version_in_repository"
    /\ LET fails == script.fault = "git_show" \/ script.committed = NoMarker IN
       /\ Step("find_version_in_repository", fails,
               IF script.fault = "git_show"
               THEN "ExternalCommandFailed" ELSE "Exception",
               Goto(AfterFindVersionInRepository))
       /\ committed_version' =
              IF fails THEN committed_version ELSE script.committed
    /\ UNCHANGED <<world, files, previous_release, suggested_changelog,
                   approved_changelog>>

\* A comparison that takes the branches the wrong way round.
UpToDate_Inverted(committed, previous) == committed # previous

\* if committed_version == previous_release
UpToDate(committed, previous) == committed = previous

\* A push that ignores the dry run.
SkipPush_Never == FALSE

\* A push that is skipped in every run.
SkipPush_Always == TRUE

\* if self.dry_run (before the push)
SkipPush == dry_run

\* elif self.dry_run (before the upload)
SkipUpload == dry_run

\* The comparison of the two versions and the branch it selects.
CompareVersions ==
    /\ pc = "compare"
    /\ IF UpToDate(committed_version, previous_release)
       THEN Finish("UpToDate")
       ELSE IF SkipPush
            THEN Goto("generate_changelog")
            ELSE Goto("push_master")
    /\ UNCHANGED <<world, locals, files, calls>>

\* publish_changes_to_github: git push origin master
PushMaster ==
    /\ pc = "push_master"
    /\ Run("push_master", Goto("push_tags"))
    /\ UNCHANGED <<world, locals, files>>

\* publish_changes_to_github: git push --tags
PushTags ==
    /\ pc = "push_tags"
    /\ Run("push_tags", Goto("generate_changelog"))
    /\ UNCHANGED <<world, locals, files>>

\* One entry of the change log: the subject without its trailing colon, and
\* the link made of the repository URL and the abbreviated hash.
ChangelogEntry(plugin_name, line) ==
    [summary |-> RstripColon(Strip(line.desc)),
     link |-> <<"http://github.com/", plugin_name, "/commit/", line.hash>>]

\* The value generate_changelog has built when its loop ends: a list.
BuildChangelog(plugin_name, lines) ==
    PyList([i \in 1..Len(lines) |->
                ChangelogEntry(plugin_name, Reversed(lines)[i])])

\* generate_changelog
GenerateChangelog ==
    /\ pc = "generate_changelog"
    /\ LET changelog == BuildChangelog(PluginName, script.gitlog)
           fails == script.fault = "git_log" \/ ~HasStringMethods(changelog)
       IN
       /\ Step("generate_changelog", fails,
               IF script.fault = "git_log"
               THEN "ExternalCommandFailed" ELSE "AttributeError",
               Goto("approve_write"))
       /\ suggested_changelog' =
              IF fails THEN suggested_changelog
              ELSE PyStr(Rstrip(changelog.val))
    /\ UNCHANGED <<world, files, previous_release, committed_version,
                   approved_changelog>>

\* Except clauses that log the failure and return.
HandleException_NoExit ==
    /\ pc = "except"
    /\ pc' = "done"
    /\ outcome' = "Failed"
    /\ exit_status' = 0
    /\ UNCHANGED <<world, locals, files, calls, raised>>

\* The except clauses of publish_release: log, then sys.exit(1).
HandleException ==
    /\ pc = "except"
    /\ pc' = "done"
    /\ outcome' = "Failed"
    /\ exit_status' = 1
    /\ UNCHANGED <<world, locals, files, calls, raised>>

(***************************************************************************)
(* approve_changelog                                                       *)
(***************************************************************************)
\* open(fname, 'w') creates the file; handle.write wants a string.
ApproveWrite ==
    /\ pc = "approve_write"
    /\ LET fails == suggested_changelog.type # "str" IN
       /\ Step("approve_write", fails, "TypeError", Goto("approve_edit"))
       /\ draft_file' =
              [exists |-> TRUE,
               text |-> IF fails THEN <<>> ELSE suggested_changelog.val]
    /\ UNCHANGED <<world, locals, listing, archive_file, uploads>>

\* run('gvim', '-fc', 'e ++enc=cp1252 %s' % fname)
ApproveEdit ==
    /\ pc = "approve_edit"
    /\ Run("gvim", Goto("approve_read"))
    /\ draft_file' =
           IF script.fault = "gvim" THEN draft_file
           ELSE [draft_file EXCEPT !.text = script.edited]
    /\ UNCHANGED <<world, locals, listing, archive_file, uploads>>

\* What publish_release does with the approved change log.
AfterApproval(approved) ==
    IF Strip(approved) = <<>>
    THEN Finish("Canceled")
    ELSE IF SkipUpload
         THEN Finish("DryRun")
         ELSE Goto("publish_lookup")

\* The file is read back and deleted, and its text returned without the
\* trailing whitespace.
ApproveRead ==
    /\ pc = "approve_read"
    /\ LET fails == script.fault = "read"
           approved == Rstrip(draft_file.text)
       IN
       /\ Step("approve_read", fails, "IOError",
               IF entry = "publish_release"
               THEN AfterApproval(approved)
               ELSE Return("done"))
       /\ approved_changelog' = IF fails THEN approved_changelog ELSE approved
       /\ draft_file' = IF fails THEN draft_file ELSE NoFile
    /\ UNCHANGED <<world, listing, archive_file, uploads, previous_release,
                   committed_version, suggested_changelog>>

(***************************************************************************)
(* publish_release_to_vim_online                                           *)
(***************************************************************************)
\* The user name, the password and the script id are looked up.
PublishLookup ==
    /\ pc = "publish_lookup"
    /\ Step("publish_lookup", script.fault = "netrc", "Exception",
            Goto("publish_archive"))
    /\ UNCHANGED <<world, locals, files>>

\* The arguments the call self.generate_release_archive() passes, and the
\* parameters generate_release_archive(self, plugin_name) declares.
ArchiveCallArguments == 0
ArchiveParameters == 1

\* The archive is generated, uploaded in the session with Vim Online (which
\* then lists the new version), and deleted.
PublishArchive ==
    /\ pc = "publish_archive"
    /\ IF ArchiveCallArguments # ArchiveParameters
       THEN /\ Log("generate_release_archive", FALSE)
            /\ Raise("TypeError")
            /\ UNCHANGED files
       ELSE IF script.fault = "git_archive"
       THEN /\ Log("generate_release_archive", FALSE)
            /\ Raise("ExternalCommandFailed")
            /\ UNCHANGED files
       ELSE IF script.fault = "upload"
       THEN /\ calls' = calls \o <<[op |-> "generate_release_archive", ok |-> TRUE],
                                   [op |-> "upload", ok |-> FALSE]>>
            /\ Raise("Exception")
            /\ archive_file' = TRUE
            /\ UNCHANGED <<listing, draft_file, uploads>>
       ELSE /\ calls' = calls \o <<[op |-> "generate_release_archive", ok |-> TRUE],
                                   [op |-> "upload", ok |-> TRUE],
                                   [op |-> "unlink_archive", ok |-> TRUE]>>
            /\ Return("show_release")
            /\ archive_file' = FALSE
            /\ listing' = listing \cup {committed_version}
            /\ uploads' = Append(uploads,
                                 [script_version |-> committed_version,
                                  version_comment |-> approved_changelog])
            /\ UNCHANGED draft_file
    /\ UNCHANGED <<world, locals>>

\* generate_release_archive(plugin_name)
GenerateReleaseArchive ==
    /\ pc = "generate_release_archive"
    /\ Step("generate_release_archive", script.fault = "git_archive",
            "ExternalCommandFailed", Return("done"))
    /\ archive_file' = (script.fault # "git_archive")
    /\ UNCHANGED <<world, locals, listing, draft_file, uploads>>

\* show_release_on_vim_online
ShowRelease ==
    /\ pc = "show_release"
    /\ Step("show_release", script.fault = "browser", "Exception",
            Return("which_hook"))
    /\ UNCHANGED <<world, locals, files>>

\* run_post_release_hook returns; publish_release logs "Done!" and returns.
HookReturns ==
    IF entry = "publish_release" THEN Finish("Done") ELSE Return("done")

\* A lookup without the try statement: a missing hook is an error.
WhichHook_Uncaught ==
    /\ pc = "which_hook"
    /\ Run("which", Goto("run_hook"))
    /\ UNCHANGED <<world, locals, files>>

\* run_post_release_hook: which after-vim-plugin-release
WhichHook ==
    /\ pc = "which_hook"
    /\ IF script.fault = "which"
       THEN Log("which", FALSE) /\ HookReturns
       ELSE Log("which", TRUE) /\ Goto("run_hook")
    /\ UNCHANGED <<world, locals, files>>

\* run_post_release_hook: run(pathname)
RunHook ==
    /\ pc = "run_hook"
    /\ Run("hook", HookReturns)
    /\ UNCHANGED <<world, locals, files>>

Next ==
    \/ FindCurrentPlugin
    \/ FindVersionOnVimOnline
    \/ FindVersionInRepository
    \/ CompareVersions
    \/ PushMaster
    \/ PushTags
    \/ GenerateChangelog
    \/ HandleException
    \/ ApproveWrite
    \/ ApproveEdit
    \/ ApproveRead
    \/ PublishLookup
    \/ PublishArchive
    \/ GenerateReleaseArchive
    \/ ShowRelease
    \/ WhichHook
    \/ RunHook

Spec == Init /\ [][Next]_vars

\* The run can always take its next step: every external call returns.
FairSpec == Spec /\ WF_vars(Next)
(***************************************************************************)
(* Vocabulary of the properties.                                           *)
(***************************************************************************)
\* The run is a release run (vim-plugin-manager --release).
Release == entry = "publish_release"

Ended == pc = "done"

\* The step op was executed, and completed.
Completed(op) == \E i \in 1..Len(calls) : calls[i].op = op /\ calls[i].ok

\* The step op was executed, whatever came of it.
Attempted(op) == \E i \in 1..Len(calls) : calls[i].op = op

\* Both versions were resolved in this run.
VersionsResolved == Completed("find_version_in_repository")

PushSteps == {"push_master", "push_tags"}
UploadSteps == {"generate_release_archive", "upload"}
PublishSteps == <<"generate_release_archive", "upload", "show_release", "hook">>
AfterPushSteps == UploadSteps \cup {"show_release", "which", "hook"}

NoneAttempted(ops) == \A i \in 1..Len(calls) : calls[i].op \notin ops

\* The editor leaves a change log that is empty once trimmed.
EditorClears == Strip(script.edited) = <<>>

\* A release run that resolved both versions, found them different, and ended.
DueRunEnded ==
    /\ Release /\ Ended /\ VersionsResolved
    /\ committed_version # previous_release

(***************************************************************************)
(* C1: when the published and the committed version are the same, a        *)
(* release run makes no push, archive, upload, notify or hook call and     *)
(* ends with exit status 0, with or without dry_run.                       *)
(***************************************************************************)
C1_UpToDateNoSideEffects ==
    (Release /\ VersionsResolved /\ committed_version = previous_release)
        => /\ NoneAttempted(PushSteps \cup AfterPushSteps)
           /\ uploads = <<>>
           /\ pc \in {"compare", "done"}
           /\ Ended => (exit_status = 0 /\ outcome = "UpToDate")

C1_Witness ==
    /\ Release /\ VersionsResolved /\ committed_version = previous_release
    /\ ~dry_run /\ Ended /\ exit_status = 0

(***************************************************************************)
(* C2: a dry run never pushes to the remote and never builds or uploads    *)
(* the archive.                                                            *)
(***************************************************************************)
C2_DryRunNeverPublishes ==
    (Release /\ dry_run)
        => /\ NoneAttempted(PushSteps \cup UploadSteps)
           /\ uploads = <<>>
           /\ ~archive_file

\* A dry run with differing versions that went past the place of the push.
C2_Witness ==
    /\ DueRunEnded /\ dry_run
    /\ Attempted("generate_changelog")

(***************************************************************************)
(* C3: a dry run with differing versions (and nothing failing outside)     *)
(* generates the change log, shows it in the editor, and exits with 0      *)
(* without uploading.                                                      *)
(***************************************************************************)
C3_DryRunPreviewsChangelog ==
    (DueRunEnded /\ dry_run /\ script.fault = "none")
        => /\ Completed("generate_changelog")
           /\ Completed("gvim")
           /\ exit_status = 0
           /\ uploads = <<>>

(***************************************************************************)
(* C4: when the change log that comes back from the editor is empty or     *)
(* blank, the run builds and uploads nothing, notifies nobody, runs no     *)
(* hook, and ends Canceled with exit status 0.                             *)
(***************************************************************************)
C4_EmptyChangelogCancels ==
    (DueRunEnded /\ script.fault = "none" /\ EditorClears)
        => /\ NoneAttempted(AfterPushSteps)
           /\ outcome = "Canceled"
           /\ exit_status = 0

(***************************************************************************)
(* C5: a run that is not a dry run, with differing versions, every         *)
(* collaborator succeeding and a non-empty change log approved, pushes,    *)
(* builds the archive, uploads it, runs the hook and exits with 0.         *)
(***************************************************************************)
C5_FullReleaseCompletes ==
    (DueRunEnded /\ ~dry_run /\ script.fault = "none" /\ ~EditorClears)
        => /\ \A op \in PushSteps \cup UploadSteps \cup {"hook"} : Completed(op)
           /\ uploads # <<>>
           /\ exit_status = 0

\* The publish steps of the run, in the order they were executed.
PublishStepsTaken ==
    SelectSeq(calls, LAMBDA c : c.op \in {PublishSteps[k] : k \in 1..4})

\* The number of publish steps a run executes when step number n fails
\* (all four when none does).
FirstFailing ==
    CASE script.fault = "git_archive" -> 1
      [] script.fault = "upload" -> 2
      [] script.fault = "browser" -> 3
      [] script.fault = "hook" -> 4
      [] OTHER -> 5

(***************************************************************************)
(* C6: after a non-empty change log is approved in a run that is not a     *)
(* dry run, the steps archive build, upload, notify, hook are executed in  *)
(* that order, each after the previous one completed; the first of them    *)
(* to fail ends the run Failed, and none of the later ones is executed.    *)
(***************************************************************************)
C6_PublishStepsInOrder ==
    (/\ DueRunEnded /\ ~dry_run /\ ~EditorClears
     /\ script.fault \in {"none", "git_archive", "upload", "browser", "hook"})
        => /\ Len(PublishStepsTaken) = IF FirstFailing = 5 THEN 4 ELSE FirstFailing
           /\ \A k \in 1..Len(PublishStepsTaken) :
                 /\ PublishStepsTaken[k].op = PublishSteps[k]
                 /\ PublishStepsTaken[k].ok = (k # FirstFailing)
           /\ (outcome = "Failed") = (FirstFailing # 5)

(***************************************************************************)
(* C7: in a release run a step that raises is the last step executed: no   *)
(* later step follows, no step is executed twice, and the process ends     *)
(* with exit status 1.  (The hook lookup that finds no hook does not       *)
(* raise.)                                                                 *)
(***************************************************************************)
C7_FailureAbortsRun ==
    Release
        => /\ \A i \in 1..Len(calls) :
                (~calls[i].ok /\ calls[i].op # "which")
                    => /\ i = Len(calls)
                       /\ raised # "none"
                       /\ pc \in {"except", "done"}
           /\ \A i, j \in 1..Len(calls) : calls[i].op = calls[j].op => i = j
           /\ (raised # "none" /\ Ended)
                  => (exit_status = 1 /\ outcome = "Failed")

\* The push of the tags failed after the push of the branch succeeded.
C7_Witness ==
    /\ Release /\ Ended /\ exit_status = 1
    /\ raised = "ExternalCommandFailed"
    /\ Completed("push_master")
    /\ calls[Len(calls)] = [op |-> "push_tags", ok |-> FALSE]

(***************************************************************************)
(* C8: a call of publish_release_to_vim_online that gets to the archive    *)
(* (credentials found, git archive working) builds the archive, attempts   *)
(* the upload, and has deleted the archive file when it returns or raises, *)
(* whether the upload succeeded or not.                                    *)
(***************************************************************************)
C8_ArchiveDeletedOnEveryPath ==
    (/\ entry = "publish_release_to_vim_online" /\ Ended
     /\ script.fault \in {"none", "upload"})
        => /\ Completed("generate_release_archive")
           /\ Attempted("upload")
           /\ ~archive_file

(***************************************************************************)
(* C9: when approve_changelog has returned or raised, the draft file       *)
(* /tmp/vim-online-changelog does not exist.                               *)
(***************************************************************************)
C9_DraftDeletedOnEveryPath ==
    Ended => ~draft_file.exists

\* The component i of a version, zero beyond its end.
Component(t, i) == IF i <= Len(t) THEN t[i] ELSE 0

\* Two versions are equal as integer sequences padded with trailing zeros.
PaddedEqual(a, b) ==
    \A i \in 1..(Len(a) + Len(b)) : Component(a, i) = Component(b, i)

(***************************************************************************)
(* C10: a release run that resolved both versions takes the up-to-date     *)
(* branch exactly when the published and the committed version are equal   *)
(* as integer sequences padded with trailing zeros.                        *)
(***************************************************************************)
C10_UpToDateIffPaddedEqual ==
    (Release /\ VersionsResolved /\ pc # "compare")
        => ((outcome = "UpToDate")
                <=> PaddedEqual(ParseVersion(previous_release),
                                ParseVersion(committed_version)))
\* a is greater than b in the numeric order of dotted versions: at the first
\* place where they differ a has the greater number, or b ends there.
NumericallyGreater(a, b) ==
    \E k \in 1..Len(a) :
        /\ \A i \in 1..(k - 1) : i <= Len(b) /\ a[i] = b[i]
        /\ (k > Len(b) \/ a[k] > b[k])

\* The page of this run is fetched with status 200 and every row parses.
PageReadable ==
    /\ script.fault # "http_status"
    /\ listing # {}
    /\ \A v \in listing : Parseable(v)

(***************************************************************************)
(* C11: find_version_on_vim_online returns the greatest of the versions    *)
(* on the page in the numeric order of their components (2.10 above 2.9),  *)
(* and fails when the page has no version row or a status other than 200.  *)
(***************************************************************************)
C11_LatestIsNumericMaximum ==
    (Release /\ Attempted("find_version_on_vim_online") /\ uploads = <<>>)
        => /\ Completed("find_version_on_vim_online") <=> PageReadable
           /\ Completed("find_version_on_vim_online")
                => /\ \E v \in listing :
                         ParseVersion(v) = ParseVersion(previous_release)
                   /\ \A v \in listing :
                         ~NumericallyGreater(ParseVersion(v),
                                             ParseVersion(previous_release))
           /\ ~Completed("find_version_on_vim_online")
                => (raised # "none" /\ previous_release = <<>>)

\* The page lists 2.9 and 2.10, and 2.10 is found.
C11_Witness ==
    /\ Release /\ Completed("find_version_on_vim_online")
    /\ listing = {V_2_9, V_2_10}
    /\ previous_release = V_2_10
\* The page lists the committed version, and nothing newer: the state of
\* Vim Online after this version was uploaded with script_version set to it.
CommittedVersionIsListed ==
    /\ PageReadable
    /\ script.committed \in listing
    /\ \A v \in listing :
          ~NumericallyGreater(ParseVersion(v), ParseVersion(script.committed))

(***************************************************************************)
(* C12: once the committed version V has been uploaded and is listed, a    *)
(* later run with the same committed version finds the versions equal,     *)
(* ends up to date, and does not upload V again.                           *)
(***************************************************************************)
C12_RerunAfterUploadIsUpToDate ==
    (Release /\ Ended /\ script.fault = "none" /\ CommittedVersionIsListed)
        => /\ outcome = "UpToDate"
           /\ NoneAttempted(PushSteps \cup UploadSteps)
           /\ uploads = <<>>
\* The place of the first execution of step op in the run (0: never).
PlaceOf(op) ==
    IF Attempted(op)
    THEN CHOOSE i \in 1..Len(calls) :
             calls[i].op = op /\ \A j \in 1..(i - 1) : calls[j].op # op
    ELSE 0

ApprovalSteps == {"approve_write", "gvim", "approve_read"}

\* The user has approved a change log that is not empty, at place i or before.
ApprovedBefore(i) ==
    /\ Completed("approve_read")
    /\ PlaceOf("approve_read") < i
    /\ Strip(approved_changelog) # <<>>

(***************************************************************************)
(* C13 as stated: every push to the remote and every upload of the         *)
(* archive happens only after the user has approved a change log that is   *)
(* not empty, in the same run.                                             *)
(***************************************************************************)
C13_PublishOnlyAfterApproval ==
    Release
        => \A i \in 1..Len(calls) :
               calls[i].op \in PushSteps \cup {"upload"} => ApprovedBefore(i)

(***************************************************************************)
(* C13 amended: the upload of the archive happens only after the user has  *)
(* approved a change log that is not empty; the push is not behind the     *)
(* approval gate: a run that is not a dry run has pushed the branch and    *)
(* the tags before it generates the change log, and no approval step       *)
(* precedes a push.                                                        *)
(***************************************************************************)
C13_UploadAfterApprovalPushBefore ==
    Release
        => /\ \A i \in 1..Len(calls) :
                 calls[i].op = "upload" => ApprovedBefore(i)
           /\ \A i \in 1..Len(calls) :
                 (calls[i].op \in {"generate_changelog"} \cup ApprovalSteps
                  /\ ~dry_run)
                     => \A p \in PushSteps :
                            Completed(p) /\ PlaceOf(p) < i
           /\ \A i \in 1..Len(calls) :
                 calls[i].op \in PushSteps
                     => \A j \in 1..i : calls[j].op \notin ApprovalSteps

\* A run that pushed and then went on to generate the change log.
C13_Witness ==
    /\ Release /\ ~dry_run
    /\ Completed("push_master") /\ Completed("push_tags")
    /\ Attempted("generate_changelog")
    /\ PlaceOf("push_tags") < PlaceOf("generate_changelog")
\* The subject of the commit that is number k from the oldest in the range.
OldestFirst(k) == script.gitlog[Len(script.gitlog) + 1 - k]

(***************************************************************************)
(* C14: generate_changelog over a range of N commits returns a change log  *)
(* of N entries, oldest first, each with the subject of its commit without *)
(* the trailing colon and a link made of the GitHub URL, the plug-in name  *)
(* and the abbreviated hash of the commit.                                 *)
(***************************************************************************)
C14_ChangelogHasEntryPerCommit ==
    (Release /\ Attempted("generate_changelog") /\ script.fault # "git_log")
        => /\ Completed("generate_changelog")
           /\ Len(suggested_changelog.val) = Len(script.gitlog)
           /\ \A k \in 1..Len(script.gitlog) :
                 /\ suggested_changelog.val[k].summary
                        = RstripColon(OldestFirst(k).desc)
                 /\ suggested_changelog.val[k].link
                        = <<"http://github.com/", PluginName, "/commit/",
                            OldestFirst(k).hash>>
(***************************************************************************)
(* C15: when the versions differ and the range between them has no         *)
(* commit, the change log is empty and the run is treated as having        *)
(* nothing to release: no archive is built or uploaded, and the run does   *)
(* not end Failed (exit status 0).                                         *)
(***************************************************************************)
C15_EmptyRangeIsNothingToRelease ==
    (/\ DueRunEnded /\ script.fault = "none"
     /\ script.gitlog = <<>> /\ script.edited = <<>>)
        => /\ Completed("generate_changelog")
           /\ NoneAttempted(UploadSteps)
           /\ outcome # "Failed"
           /\ exit_status = 0
\* The number of times step op was executed.
TimesAttempted(op) == Cardinality({i \in 1..Len(calls) : calls[i].op = op})

(***************************************************************************)
(* C16: run_post_release_hook.  When the hook is not found, nothing is     *)
(* raised, the hook is not invoked and the call returns (a release run     *)
(* then ends with exit status 0).  When it is found it is invoked exactly  *)
(* once, after the lookup, and its nonzero exit is raised as               *)
(* ExternalCommandFailed (a release run then ends Failed, exit status 1).  *)
(***************************************************************************)
C16_PostReleaseHook ==
    /\ (Attempted("which") /\ ~Completed("which"))
           => /\ ~Attempted("hook")
              /\ raised = "none"
              /\ Ended /\ outcome \in {"returned", "Done"}
              /\ Release => exit_status = 0
    /\ (Completed("which") /\ pc # "run_hook")
           => TimesAttempted("hook") = 1
    /\ Attempted("hook")
           => (Completed("which") /\ PlaceOf("which") < PlaceOf("hook"))
    /\ (Attempted("hook") /\ ~Completed("hook"))
           => /\ raised = "ExternalCommandFailed"
              /\ ~Release => outcome = "raised"
              /\ (Release /\ Ended)
                    => (outcome = "Failed" /\ exit_status = 1)
    /\ Completed("hook")
           => /\ raised = "none" /\ Ended
              /\ Release => exit_status = 0

\* The hook is not installed, and the call has returned.
C16_Witness ==
    /\ entry = "run_post_release_hook"
    /\ Attempted("which") /\ ~Completed("which")
    /\ Ended /\ outcome = "returned"
(***************************************************************************)
(* Two runs that overlap in time, each in approve_changelog, on the same   *)
(* machine: the releases of two plug-ins, or of the same one.  Each run    *)
(* has its own locals; the file /tmp/vim-online-changelog is the same for  *)
(* both.  The user of a run either keeps what the editor shows or clears   *)
(* it.                                                                     *)
(***************************************************************************)
Runs == {1, 2}
ConcDrafts == {<<"a">>, <<"b", "\n">>}

InitConcurrent ==
    /\ conc \in [Runs -> [pc : {"approve_write"}, suggested : ConcDrafts,
                          shown : {<<>>}, choice : {"none"},
                          approved : {<<>>}, raised : {"none"}]]
    /\ entry = "approve_changelog"
    /\ dry_run = FALSE
    /\ script = [fault |-> "none", committed |-> NoMarker, gitlog |-> <<>>,
                 edited |-> <<>>]
    /\ listing = {V_1_2_0}
    /\ draft_file = NoFile
    /\ archive_file = FALSE
    /\ uploads = <<>>
    /\ previous_release = <<>>
    /\ committed_version = <<>>
    /\ suggested_changelog = None
    /\ approved_changelog = <<>>
    /\ repo = <<>>
    /\ pc = "concurrent"
    /\ calls = <<>>
    /\ raised = "none"
    /\ outcome = "none"
    /\ exit_status = -1

ConcFrame ==
    UNCHANGED <<entry, dry_run, script, repo, locals, listing, archive_file,
                uploads, control>>

\* with open(fname, 'w') as handle: handle.write(suggested_changelog)
ConcurrentWrite ==
    \E r \in Runs :
        /\ conc[r].pc = "approve_write"
        /\ draft_file' = [exists |-> TRUE, text |-> conc[r].suggested]
        /\ conc' = [conc EXCEPT ![r].pc = "approve_edit"]
        /\ ConcFrame

\* run('gvim', ...): the editor shows the file as it is now; the user keeps
\* or clears the text.  A file that is gone is shown as an empty buffer, and
\* is written or not.
ConcurrentEdit ==
    \E r \in Runs, choice \in {"keep", "clear"}, saved \in BOOLEAN :
        /\ conc[r].pc = "approve_edit"
        /\ draft_file.exists => saved
        /\ draft_file' =
               IF ~saved THEN draft_file
               ELSE [exists |-> TRUE,
                     text |-> IF choice = "keep" THEN draft_file.text
                              ELSE <<>>]
        /\ conc' = [conc EXCEPT ![r].pc = "approve_read",
                                ![r].shown = draft_file.text,
                                ![r].choice = choice]
        /\ ConcFrame

\* with open(fname) as handle: approved_changelog = handle.read()
ConcurrentRead ==
    \E r \in Runs :
        /\ conc[r].pc = "approve_read"
        /\ conc' =
               IF draft_file.exists
               THEN [conc EXCEPT ![r].pc = "approve_unlink",
                                 ![r].approved = draft_file.text]
               ELSE [conc EXCEPT ![r].pc = "done", ![r].raised = "IOError"]
        /\ UNCHANGED draft_file
        /\ ConcFrame

\* os.unlink(fname); return approved_changelog.rstrip()
ConcurrentUnlink ==
    \E r \in Runs :
        /\ conc[r].pc = "approve_unlink"
        /\ conc' =
               IF draft_file.exists
               THEN [conc EXCEPT ![r].pc = "done",
                                 ![r].approved = Rstrip(conc[r].approved)]
               ELSE [conc EXCEPT ![r].pc = "done", ![r].raised = "OSError"]
        /\ draft_file' = NoFile
        /\ ConcFrame

NextConcurrent ==
    \/ ConcurrentWrite
    \/ ConcurrentEdit
    \/ ConcurrentRead
    \/ ConcurrentUnlink

SpecConcurrent == InitConcurrent /\ [][NextConcurrent]_vars

\* The text run r hands to the editor and gets back when nothing interferes.
OwnText(r) ==
    IF conc[r].choice = "clear" THEN <<>> ELSE conc[r].suggested

(***************************************************************************)
(* C17: two runs that interleave share no state: the draft file of a run   *)
(* is there, with the text of that run, from the moment the run has        *)
(* written it until the run deletes it; the editor of a run shows the      *)
(* draft of that run; and the change log a run gets back is the one        *)
(* drafted and edited in that run.                                         *)
(***************************************************************************)
C17_RunsShareNoState ==
    \A r \in DOMAIN conc :
        /\ conc[r].raised = "none"
        /\ conc[r].pc = "approve_edit"
               => (draft_file.exists /\ draft_file.text = conc[r].suggested)
        /\ conc[r].pc \in {"approve_read", "approve_unlink"}
               => /\ conc[r].shown = conc[r].suggested
                  /\ draft_file.exists /\ draft_file.text = OwnText(r)
        /\ (conc[r].pc = "done" /\ conc[r].raised = "none")
               => conc[r].approved = Rstrip(OwnText(r))
\* The run cannot resolve one of the two versions: the page is not fetched
\* or shows no version, or the committed file has no version marker.
VersionUnresolvable ==
    \/ script.fault = "http_status"
    \/ listing = {}
    \/ script.committed = NoMarker

(***************************************************************************)
(* C18: a push or an upload happens in a release run only after both the   *)
(* published and the committed version were resolved in that run; when the *)
(* version marker is missing, or the page cannot be fetched or lists no    *)
(* version, the run fails without any push or upload.                      *)
(***************************************************************************)
C18_NoRemoteChangeBeforeVersions ==
    Release
        => /\ \A i \in 1..Len(calls) :
                 calls[i].op \in PushSteps \cup UploadSteps
                     => /\ Completed("find_version_on_vim_online")
                        /\ Completed("find_version_in_repository")
                        /\ PlaceOf("find_version_on_vim_online") < i
                        /\ PlaceOf("find_version_in_repository") < i
                        /\ previous_release # <<>>
                        /\ committed_version # <<>>
           /\ VersionUnresolvable
                 => /\ NoneAttempted(PushSteps \cup UploadSteps)
                    /\ pc # "compare"
                    /\ Ended => (outcome = "Failed" /\ exit_status = 1)

\* The committed file has no version marker: the run has failed, and has
\* pushed nothing.
C18_Witness ==
    /\ Release /\ Ended /\ script.committed = NoMarker
    /\ Attempted("find_version_in_repository")
    /\ outcome = "Failed"
    /\ NoneAttempted(PushSteps)
\* The ways a release run ends, and the exit status that goes with each.
ExitStatusOf(how) ==
    IF how \in {"UpToDate", "Canceled", "DryRun", "Done"} THEN 0
    ELSE IF how = "Failed" THEN 1
    ELSE -1

(***************************************************************************)
(* C19: when every external call returns, every release run ends, in       *)
(* exactly one outcome: it has none before it ends, and it ends with exit  *)
(* status 0 when it is up to date, canceled, stopped by dry_run or         *)
(* complete, and with exit status 1 when anything failed.                  *)
(***************************************************************************)
C19_EveryRunEndsInOneOutcome ==
    /\ [](Release /\ ~Ended => outcome = "none" /\ exit_status = -1)
    /\ [](Release /\ Ended
            => /\ outcome \in {"UpToDate", "Canceled", "DryRun", "Done", "Failed"}
               /\ exit_status = ExitStatusOf(outcome)
               /\ (outcome = "Failed") = (raised # "none"))
    /\ (Release ~> Ended)

\* A release run that failed has ended with exit status 1.
C19_Witness ==
    /\ Release /\ Ended
    /\ outcome = "Failed" /\ raised # "none" /\ exit_status = 1
\* The steps of run_post_release_hook.
HookSteps == {"which", "hook"}

(***************************************************************************)
(* C21: the committed version V was uploaded and is listed, and the        *)
(* post-release hook is the step that fails.  A release run started again  *)
(* with the same committed version finds the versions equal, ends up to    *)
(* date with exit status 0, and does not look up or invoke the hook.       *)
(***************************************************************************)
C21_RerunAfterHookFailureIsUpToDate ==
    (Release /\ Ended /\ script.fault = "hook" /\ CommittedVersionIsListed)
        => /\ outcome = "UpToDate"
           /\ exit_status = 0
           /\ raised = "none"
           /\ NoneAttempted(HookSteps)
(***************************************************************************)
(* run_postcommit_hooks: vim-plugin-manager --post-commit, run by git      *)
(* after every commit.  The repository keeps its tags from one run to the  *)
(* next; between two commits the user may check out another branch.        *)
(***************************************************************************)
\* The number of commits, each followed by a run of the hook.
MaxRuns == 2

\* The names of the branches, character by character where it matters.
BranchNames == {<<"master">>, <<"develop">>, <<"feature", "/", "master">>}

\* The branch that is called master.
Master == <<"master">>

\* The output of git symbolic-ref HEAD.
SymbolicRef(branch) == <<"refs", "/", "heads", "/">> \o branch

\* str.split(sep)
RECURSIVE Split(_, _)
Split(s, sep) ==
    IF \A i \in 1..Len(s) : s[i] # sep
    THEN <<s>>
    ELSE LET i == CHOOSE k \in 1..Len(s) :
                      s[k] = sep /\ \A j \in 1..(k - 1) : s[j] # sep
         IN <<SubSeq(s, 1, i - 1)>> \o Split(SubSeq(s, i + 1, Len(s)), sep)

\* on_master_branch: tokens[-1] == 'master'
OnMasterBranch(output) ==
    LET tokens == Split(output, "/") IN tokens[Len(tokens)] = Master

\* The commands of the hook that can exit with a nonzero code
\* (git symbolic-ref does when HEAD is detached).
PostCommitFaults ==
    {"none", "git_config", "git_symbolic_ref", "git_show", "git_tag_list",
     "git_tag"}

\* The tags the repository has before the first run.
TagsBefore == SUBSET {V_1_2_0, V_1_3_0}

InitPostCommit ==
    /\ InitCommon
    /\ entry = "run_postcommit_hooks"
    /\ dry_run \in BOOLEAN
    /\ script \in [fault : PostCommitFaults,
                   committed : VersionStrings \cup {NoMarker},
                   gitlog : {<<>>}, edited : {<<>>}]
    /\ \E b \in BranchNames, t \in TagsBefore :
          repo = [branch |-> b, tags |-> t, before |-> t, created |-> <<>>,
                  runs |-> 1]
    /\ listing = {V_1_2_0}
    /\ previous_release = <<>>
    /\ committed_version = <<>>
    /\ suggested_changelog = None
    /\ approved_changelog = <<>>
    /\ pc = "find_current_plugin"

PostCommitFrame == UNCHANGED <<entry, dry_run, script, conc, locals, files>>

\* if self.on_master_branch()
CheckMasterBranch ==
    /\ pc = "on_master_branch"
    /\ Run("git_symbolic_ref",
           IF OnMasterBranch(SymbolicRef(repo.branch))
           THEN Goto("find_version_in_repository")
           ELSE Return("done"))
    /\ UNCHANGED <<world, locals, files>>

\* existing_tags = run('git', 'tag').split(); if version in existing_tags
ListTags ==
    /\ pc = "git_tag_list"
    /\ Run("git_tag_list",
           IF committed_version \in repo.tags
           THEN Return("done")
           ELSE Goto("git_tag"))
    /\ UNCHANGED <<world, locals, files>>

\* run('git', 'tag', version)
CreateTag ==
    /\ pc = "git_tag"
    /\ Run("git_tag", Return("done"))
    /\ repo' =
           IF script.fault = "git_tag" THEN repo
           ELSE [repo EXCEPT
                    !.tags = @ \cup {committed_version},
                    !.created =
                        Append(@, [tag |-> committed_version,
                                   branch |-> repo.branch,
                                   existed |-> committed_version \in repo.tags])]
    /\ PostCommitFrame

\* The next commit, of the same version, on the branch checked out by then:
\* git runs the hook again, in a new process.
NextCommit ==
    /\ pc = "done"
    /\ repo.runs < MaxRuns
    /\ \E b \in BranchNames :
          repo' = [repo EXCEPT !.branch = b, !.before = repo.tags,
                               !.runs = @ + 1]
    /\ pc' = "find_current_plugin"
    /\ calls' = <<>>
    /\ raised' = "none"
    /\ outcome' = "none"
    /\ committed_version' = <<>>
    /\ UNCHANGED <<entry, dry_run, script, conc, files, previous_release,
                   suggested_changelog, approved_changelog, exit_status>>

NextPostCommit ==
    \/ FindCurrentPlugin
    \/ CheckMasterBranch
    \/ FindVersionInRepository
    \/ ListTags
    \/ CreateTag
    \/ NextCommit

SpecPostCommit == InitPostCommit /\ [][NextPostCommit]_vars

(***************************************************************************)
(* C22: the hook creates a tag only when the branch checked out is master  *)
(* and the repository has no tag of that name; so over the runs that       *)
(* follow commits of one version no tag is created twice, and a run on     *)
(* another branch leaves the tags as they were.                            *)
(***************************************************************************)
C22_TagOnlyOnMasterAndOnce ==
    /\ \A i \in DOMAIN repo.created :
          /\ repo.created[i].branch = Master
          /\ ~repo.created[i].existed
          /\ repo.created[i].tag = script.committed
    /\ \A i, j \in DOMAIN repo.created :
          repo.created[i].tag = repo.created[j].tag => i = j
    /\ repo.branch # Master => repo.tags = repo.before
====
